---------------------------- MODULE Spec2Model ----------------------------
(***************************************************************************)
(* Quest Orchestration Engine of the XMTP Social Quest Arena backend.      *)
(*                                                                         *)
(* The model covers the five QuestMaster instances, the QuestOrchestrator  *)
(* (second class of services/QuestOrchestrator.ts), the MiniAppLauncher    *)
(* (second class of services/MiniAppLauncher.ts) and the HTTP / WebSocket  *)
(* handlers of index.ts that drive them.                                   *)
(*                                                                         *)
(* A Quest object is created once by a QuestMaster and then shared by      *)
(* reference between QuestMaster.activeQuests and                          *)
(* QuestOrchestrator.activeQuests; the model keeps the objects in `quests` *)
(* (index = quest id) and the two maps as sets of ids.                     *)
(*                                                                         *)
(* Two builds of QuestMaster exist in the sources (the template/mock one   *)
(* in agents/QuestMaster.ts and the OpenAI one); `qmBuild` fixes which one *)
(* is deployed for a whole behaviour.                                      *)
(*                                                                         *)
(* A profile map is modelled as a total function: a user without an entry  *)
(* reads as DefaultProfile, which is exactly what getUserProfile /         *)
(* getUserStats insert on first access.                                    *)
(***************************************************************************)
EXTENDS Integers, Sequences, FiniteSets, TLC

(***************************************************************************)
(* Bounds of the model                                                     *)
(***************************************************************************)
MaxQuests == 1
MaxTime == 60
TickMinutes == 30
MaxMessages == 2
MaxTriggers == 1

MaxPublishes == 2

MaxRecent == 2

Users == {"userA", "userB"}
QuestIds == 1..MaxQuests
Conversations == {"c1"}
GroupSizes == {1}

(***************************************************************************)
(* Program constants                                                       *)
(***************************************************************************)
QuestMasterNames ==
  <<"The Mentor", "The Competitor", "The Creator", "The Connector", "The Explorer">>

QuestMasters == {QuestMasterNames[i] : i \in 1..Len(QuestMasterNames)}

QUEST_MASTER_PERSONALITIES ==
  [qm \in QuestMasters |->
     CASE qm = "The Mentor"     -> <<"knowledge_quest", "community_building">>
       [] qm = "The Competitor" -> <<"social_challenge", "knowledge_quest">>
       [] qm = "The Creator"    -> <<"creative_contest", "community_building">>
       [] qm = "The Connector"  -> <<"social_challenge", "community_building">>
       [] qm = "The Explorer"   -> <<"cross_protocol", "knowledge_quest">>]

QuestTypes ==
  {"social_challenge", "knowledge_quest", "creative_contest",
   "community_building", "cross_protocol"}

Difficulties == {"easy", "medium", "hard", "expert"}

SeqToSet(s) == {s[i] : i \in 1..Len(s)}

Includes(s, x) == \E i \in 1..Len(s) : s[i] = x

DefaultProfile ==
  [level |-> 1, xp |-> 0, preferences |-> {}, completedQuests |-> <<>>,
   socialScore |-> 0]

\* lastQuestCreated: null
NoDate == -1

\* the analytics entry getConversationAnalytics inserts on first access
DefaultAnalytics ==
  [messagesSinceLastQuest |-> 0, activeUsers |-> 0,
   engagementLevel |-> [num |-> 0, den |-> 1], timeSinceLastQuest |-> 0,
   lastQuestCreated |-> NoDate]

\* an async handler that is not running
Idle == [pc |-> "idle", c |-> "-", qm |-> "-"]

\* what getConversationById gives handleNewMessage
Lookups == {"group", "other", "throws"}

\* the dashboards that can connect to the WebSocket server
Subscribers == {"s1", "s2", "s3"}

\* no broadcastToClients call yet
NoPublish == [message |-> 0, lost |-> {}, out |-> "-"]

NoResponse == [op |-> "none", q |-> 0, u |-> "-", out |-> "-"]

VARIABLES
  qmBuild,         \* which QuestMaster build runs: "mock" or "openai"
  quests,          \* the Quest objects, indexed by quest id
  qmActiveQuests,  \* QuestMaster.activeQuests, per Quest Master (ids)
  qmUserProfiles,  \* QuestMaster.userProfiles, per Quest Master
  activeQuests,    \* QuestOrchestrator.activeQuests (ids)
  userProfiles,    \* QuestOrchestrator.userProfiles
  questHistory,    \* QuestOrchestrator.questHistory
  activeMiniApps,  \* MiniAppLauncher.activeMiniApps
  timers,          \* pending setTimeout callbacks of scheduleAutoExpiration
  launchPc,        \* position of the async questCreated listener of index.ts
  now,             \* wall clock, in minutes
  response,        \* what the last client request got back
  events,          \* events emitted / broadcast by the last step
  conversationAnalytics, \* QuestOrchestrator.conversationAnalytics
  inbox,           \* messages the stream holds, not yet taken by the loop
  received,        \* number of messages that have arrived on the stream
  handler,         \* position of handleNewMessage in the monitoring loop
  trigger,         \* position of the POST /api/quests/trigger handler
  triggered,       \* number of trigger requests received
  monitoring,      \* the for-await loop of startConversationMonitoring
  handlerErrors,   \* "Error handling message" lines the loop has logged
  announcements,   \* quests whose announcement was sent to the conversation
  wssClients,      \* wss.clients, in insertion order
  readyState,      \* readyState of each subscriber's socket
  outbox,          \* payloads handed to each subscriber's socket
  publish,         \* the last broadcastToClients call and how it ended
  recentMessages,  \* contents of the recent messages selectQuestMaster reads
  selected,        \* what the last selectQuestMaster call returned
  websocket,       \* the dashboard's current WebSocket: its readyState
  reconnectAttempts, \* the dashboard's reconnectAttempts counter
  reconnectTimer,  \* a setTimeout(connectWebSocket) is pending
  connectionStatus, \* the dashboard's connectionStatus
  error,           \* the dashboard's error text, "null" for none
  userStats        \* the dashboard's userStats, "null" until received

vars ==
  <<qmBuild, quests, qmActiveQuests, qmUserProfiles, activeQuests,
    userProfiles, questHistory, activeMiniApps, timers, launchPc, now,
    response, events, conversationAnalytics, inbox, received, handler,
    trigger, triggered, monitoring, handlerErrors, announcements,
    wssClients, readyState, outbox, publish, recentMessages, selected,
    websocket, reconnectAttempts, reconnectTimer, connectionStatus, error,
    userStats>>

\* the state of the Quest Masters, the orchestrator and the mini-apps
questVars ==
  <<qmBuild, quests, qmActiveQuests, qmUserProfiles, activeQuests,
    userProfiles, questHistory, activeMiniApps, timers, launchPc, now,
    response, events>>

\* the state of message monitoring and quest gating
monitorVars ==
  <<conversationAnalytics, inbox, received, handler, trigger, triggered,
    monitoring, handlerErrors, announcements>>

\* the state of the WebSocket server
broadcastVars == <<wssClients, readyState, outbox, publish>>

\* what selectQuestMaster is given and what it returned
selectVars == <<recentMessages, selected>>

\* the state of the dashboard's connection to the WebSocket server
dashboardVars ==
  <<websocket, reconnectAttempts, reconnectTimer, connectionStatus, error,
    userStats>>

(***************************************************************************)
(* Quest proposals                                                         *)
(***************************************************************************)
\* MockPromptTemplate: the chain returns a fixed quest shaped by the persona
\* and by the size of the group.
MockProposals(qm) ==
  {[type |-> QUEST_MASTER_PERSONALITIES[qm][1], difficulty |-> "medium",
    duration |-> 30, min |-> 2, max |-> g, xp |-> 100] : g \in GroupSizes}

\* rewards.xp as the completion's JSON can give it: the quest object takes
\* questData.rewards as parsed, whatever range the prompt asked for
LLMRewardXp == <<150, -50>>

\* OpenAI build: the parsed JSON of the completion, here one of the persona's
\* preferred types with a capacity taken from the group sizes; the first type
\* comes with a reward inside the range the prompt asks for, the second with
\* one outside it.
LLMProposals(qm) ==
  {[type |-> QUEST_MASTER_PERSONALITIES[qm][i], difficulty |-> "hard",
    duration |-> 30, min |-> 1, max |-> m, xp |-> LLMRewardXp[i]] :
      i \in 1..Len(QUEST_MASTER_PERSONALITIES[qm]), m \in GroupSizes}

Proposals(qm) == IF qmBuild = "mock" THEN MockProposals(qm) ELSE LLMProposals(qm)

Ev(src, type, q) == [src |-> src, type |-> type, q |-> q]

\* the state after start-up, with room for the quests of ids
InitCore(ids) ==
  /\ qmBuild \in {"mock", "openai"}
  /\ quests = <<>>
  /\ qmActiveQuests = [qm \in QuestMasters |-> {}]
  /\ qmUserProfiles = [qm \in QuestMasters |-> [u \in Users |-> DefaultProfile]]
  /\ activeQuests = {}
  /\ userProfiles = [u \in Users |-> DefaultProfile]
  /\ questHistory = <<>>
  /\ activeMiniApps = << >>
  /\ timers = {}
  /\ launchPc = [q \in ids |-> "none"]
  /\ now = 0
  /\ response = NoResponse
  /\ events = <<>>
  /\ inbox = <<>>
  /\ received = 0
  /\ handler = Idle
  /\ trigger = Idle
  /\ triggered = 0
  /\ monitoring = "streaming"
  /\ handlerErrors = 0
  /\ announcements = {}
  /\ wssClients = <<>>
  /\ readyState = [s \in Subscribers |-> "CLOSED"]
  /\ outbox = [s \in Subscribers |-> <<>>]
  /\ publish = NoPublish
  /\ recentMessages = <<>>
  /\ selected = "none"
  /\ websocket = "CONNECTING"
  /\ reconnectAttempts = 0
  /\ reconnectTimer = FALSE
  /\ connectionStatus = "connecting"
  /\ error = "null"
  /\ userStats = "null"

InitWith(ids) ==
  /\ InitCore(ids)
  /\ conversationAnalytics = [c \in Conversations |-> DefaultAnalytics]

Init == InitWith(QuestIds)

(***************************************************************************)
(* QuestMaster.analyzeAndCreateQuest with the two questCreated listeners   *)
(* (index.ts, then the orchestrator).                                      *)
(***************************************************************************)
createQuest(qm, c, p) ==
  /\ p \in Proposals(qm)
  /\ LET id == Len(quests) + 1
         quest == [type |-> p.type, difficulty |-> p.difficulty,
                   duration |-> p.duration,
                   participantLimits |-> [min |-> p.min, max |-> p.max],
                   rewards |-> [xp |-> p.xp],
                   conversationId |-> c, createdAt |-> now,
                   expiresAt |-> now + p.duration,
                   status |-> "active", participants |-> <<>>]
     IN /\ quests' = Append(quests, quest)
        /\ qmActiveQuests' = [qmActiveQuests EXCEPT ![qm] = @ \cup {id}]
        /\ activeQuests' = activeQuests \cup {id}
        /\ launchPc' = [launchPc EXCEPT ![id] = "await_conv"]
        /\ events' = <<Ev("broadcast", "questCreated", id),
                       Ev("orchestrator", "questCreated", id)>>
  /\ UNCHANGED <<qmBuild, qmUserProfiles, userProfiles, questHistory,
                 activeMiniApps, timers, now>>

\* a quest creation, whichever caller started it
analyzeAndCreateQuest(qm, c, p) ==
  /\ Len(quests) < MaxQuests
  /\ createQuest(qm, c, p)
  /\ response' = NoResponse
  /\ UNCHANGED <<monitorVars, broadcastVars, selectVars, dashboardVars>>

(***************************************************************************)
(* MiniAppLauncher                                                         *)
(***************************************************************************)
HasMiniApp(q) == q \in DOMAIN activeMiniApps

\* MiniAppLauncher.getQuestParticipants
getQuestParticipants(q) ==
  IF HasMiniApp(q) THEN activeMiniApps[q].participants ELSE <<>>

MapSet(m, k, v) == [x \in DOMAIN m \cup {k} |-> IF x = k THEN v ELSE m[x]]

scheduleAutoExpiration(q, durationMinutes) ==
  timers \cup {[questId |-> q, at |-> now + durationMinutes]}

\* launchQuestMiniApp up to its first suspension point: with a conversation
\* it awaits conversation.send, without one it schedules the timer at once.
launchQuestMiniApp(q, withConversation) ==
  /\ launchPc[q] = "await_conv"
  /\ activeMiniApps' =
       MapSet(activeMiniApps, q,
              [status |-> "active", participants |-> <<>>])
  /\ IF withConversation
       THEN /\ launchPc' = [launchPc EXCEPT ![q] = "await_send"]
            /\ timers' = timers
       ELSE /\ launchPc' = [launchPc EXCEPT ![q] = "done"]
            /\ timers' = scheduleAutoExpiration(q, quests[q].duration)
  /\ response' = NoResponse
  /\ events' = <<>>
  /\ UNCHANGED <<monitorVars, broadcastVars, selectVars, dashboardVars>>
  /\ UNCHANGED <<qmBuild, quests, qmActiveQuests, qmUserProfiles, activeQuests,
                 userProfiles, questHistory, now>>

\* conversation.send returns or throws; a throw is caught by launchQuestMiniApp
\* before the timer is scheduled.
miniAppMessageSent(q, ok) ==
  /\ launchPc[q] = "await_send"
  /\ launchPc' = [launchPc EXCEPT ![q] = "done"]
  /\ timers' = IF ok THEN scheduleAutoExpiration(q, quests[q].duration) ELSE timers
  /\ response' = NoResponse
  /\ events' = <<>>
  /\ UNCHANGED <<monitorVars, broadcastVars, selectVars, dashboardVars>>
  /\ UNCHANGED <<qmBuild, quests, qmActiveQuests, qmUserProfiles, activeQuests,
                 userProfiles, questHistory, activeMiniApps, now>>

\* a timer callback that expires the record whatever its status
expireIfActiveAnyStatus(q) ==
  IF HasMiniApp(q)
    THEN [activeMiniApps EXCEPT ![q].status = "expired"]
    ELSE activeMiniApps

\* the body of the timer callback: an active record becomes expired
expireIfActive(q) ==
  IF HasMiniApp(q) /\ activeMiniApps[q].status = "active"
    THEN [activeMiniApps EXCEPT ![q].status = "expired"]
    ELSE activeMiniApps

\* the setTimeout callback of scheduleAutoExpiration
autoExpire(t) ==
  /\ t \in timers
  /\ now >= t.at
  /\ timers' = timers \ {t}
  /\ activeMiniApps' = expireIfActive(t.questId)
  /\ response' = NoResponse
  /\ events' = <<>>
  /\ UNCHANGED <<monitorVars, broadcastVars, selectVars, dashboardVars>>
  /\ UNCHANGED <<qmBuild, quests, qmActiveQuests, qmUserProfiles, activeQuests,
                 userProfiles, questHistory, launchPc, now>>

\* a close that drops the record instead of marking it
closedRecordDeleted(q) ==
  [x \in DOMAIN activeMiniApps \ {q} |-> activeMiniApps[x]]

\* the records after closeMiniApp has found the record of q
closedRecord(q) == [activeMiniApps EXCEPT ![q].status = "expired"]

\* MiniAppLauncher.closeMiniApp
closeMiniApp(q) ==
  /\ IF HasMiniApp(q)
       THEN /\ activeMiniApps' = closedRecord(q)
            /\ response' = [op |-> "close", q |-> q, u |-> "-", out |-> "true"]
       ELSE /\ UNCHANGED activeMiniApps
            /\ response' = [op |-> "close", q |-> q, u |-> "-", out |-> "false"]
  /\ events' = <<>>
  /\ UNCHANGED <<monitorVars, broadcastVars, selectVars, dashboardVars>>
  /\ UNCHANGED <<qmBuild, quests, qmActiveQuests, qmUserProfiles, activeQuests,
                 userProfiles, questHistory, timers, launchPc, now>>

Tick ==
  /\ now + TickMinutes <= MaxTime
  /\ now' = now + TickMinutes
  /\ response' = NoResponse
  /\ events' = <<>>
  /\ UNCHANGED <<monitorVars, broadcastVars, selectVars, dashboardVars>>
  /\ UNCHANGED <<qmBuild, quests, qmActiveQuests, qmUserProfiles, activeQuests,
                 userProfiles, questHistory, activeMiniApps, timers, launchPc>>

(***************************************************************************)
(* QuestOrchestrator                                                       *)
(***************************************************************************)
\* getQuestMasterForQuest: the first Quest Master, in map order, whose
\* personality lists the quest's type ("null" when none does).
getQuestMasterForQuest(quest) ==
  LET idx == {i \in 1..Len(QuestMasterNames) :
                Includes(QUEST_MASTER_PERSONALITIES[QuestMasterNames[i]], quest.type)}
  IN IF idx = {} THEN "null"
     ELSE QuestMasterNames[CHOOSE i \in idx : \A j \in idx : i <= j]

\* a join that never notices an earlier join of the same user
AlreadyJoinedNever(quest, u) == FALSE

\* joinQuest's "already joined" test
AlreadyJoined(quest, u) == Includes(quest.participants, u)

\* a capacity test that lets one participant too many in
QuestIsFullOffByOne(quest) ==
  Len(quest.participants) > quest.participantLimits.max

\* joinQuest's capacity test
QuestIsFull(quest) == Len(quest.participants) >= quest.participantLimits.max

\* QuestMaster.updateUserPreferences
updateUserPreferences(profiles, qm, u, questType) ==
  [profiles EXCEPT ![qm][u].preferences = @ \cup {questType}]

joinQuest(q, u) ==
  /\ IF q \notin activeQuests
       THEN /\ response' = [op |-> "orchJoin", q |-> q, u |-> u, out |-> "QuestNotFound"]
            /\ events' = <<>>
            /\ UNCHANGED <<quests, qmUserProfiles>>
     ELSE IF quests[q].status # "active"
       THEN /\ response' = [op |-> "orchJoin", q |-> q, u |-> u, out |-> "QuestNotActive"]
            /\ events' = <<>>
            /\ UNCHANGED <<quests, qmUserProfiles>>
     ELSE IF AlreadyJoined(quests[q], u)
       THEN /\ response' = [op |-> "orchJoin", q |-> q, u |-> u, out |-> "false"]
            /\ events' = <<>>
            /\ UNCHANGED <<quests, qmUserProfiles>>
     ELSE IF QuestIsFull(quests[q])
       THEN /\ response' = [op |-> "orchJoin", q |-> q, u |-> u, out |-> "QuestFull"]
            /\ events' = <<>>
            /\ UNCHANGED <<quests, qmUserProfiles>>
     ELSE /\ quests' = [quests EXCEPT ![q].participants = Append(@, u)]
          /\ LET questMaster == getQuestMasterForQuest(quests[q])
             IN qmUserProfiles' =
                  IF questMaster # "null"
                    THEN updateUserPreferences(qmUserProfiles, questMaster, u,
                                               quests[q].type)
                    ELSE qmUserProfiles
          /\ events' = <<Ev("orchestrator", "questJoined", q)>>
          /\ response' = [op |-> "orchJoin", q |-> q, u |-> u, out |-> "true"]
  /\ UNCHANGED <<monitorVars, broadcastVars, selectVars, dashboardVars>>
  /\ UNCHANGED <<qmBuild, qmActiveQuests, activeQuests, userProfiles,
                 questHistory, activeMiniApps, timers, launchPc, now>>

\* calculateSocialScoreIncrease, reading the orchestrator's map as it is when
\* updateUserProfile runs
calculateSocialScoreIncrease(completion, active) ==
  IF completion.questId \notin active THEN 5
  ELSE LET quest == quests[completion.questId]
           typeBonus ==
             CASE quest.type = "community_building" -> 10
               [] quest.type = "social_challenge"   -> 8
               [] quest.type = "knowledge_quest"    -> 6
               [] quest.type = "creative_contest"   -> 7
               [] quest.type = "cross_protocol"     -> 9
               [] OTHER -> 0
           difficultyBonus ==
             CASE quest.difficulty = "expert" -> 15
               [] quest.difficulty = "hard"   -> 10
               [] quest.difficulty = "medium" -> 5
               [] quest.difficulty = "easy"   -> 2
               [] OTHER -> 0
       IN 5 + typeBonus + difficultyBonus

\* a profile update that derives the level from the xp before the reward
updateUserProfileStaleLevel(profile, completion, active) ==
  [profile EXCEPT
     !.xp = @ + completion.rewards.xp,
     !.level = (profile.xp \div 100) + 1,
     !.completedQuests =
        IF Includes(@, completion.questId) THEN @
        ELSE Append(@, completion.questId),
     !.socialScore = @ + calculateSocialScoreIncrease(completion, active)]

\* updateUserProfile, called by the questCompleted listener after the quest
\* has been deleted from activeQuests
updateUserProfile(profile, completion, active) ==
  LET xp == profile.xp + completion.rewards.xp
  IN [profile EXCEPT
        !.xp = xp,
        !.level = (xp \div 100) + 1,
        !.completedQuests =
           IF Includes(@, completion.questId) THEN @
           ELSE Append(@, completion.questId),
        !.socialScore = @ + calculateSocialScoreIncrease(completion, active)]

(***************************************************************************)
(* QuestMaster.completeQuest, with the questCompleted listeners it fires   *)
(***************************************************************************)
\* the master has the quest in its own activeQuests map
QuestMasterHasQuest(qm, q) == q \in qmActiveQuests[qm]

\* the QuestCompletion record the master emits
Completion(qm, q, u) ==
  LET newXP == qmUserProfiles[qm][u].xp + quests[q].rewards.xp
  IN [questId |-> q, participantInboxId |-> u, rewards |-> quests[q].rewards,
      newLevel |-> (newXP \div 100) + 1]

\* state change of questMaster.completeQuest(q, u, result); where the master
\* does not hold the quest the mock build returns and the OpenAI build throws,
\* neither changing anything
questMasterCompleteQuest(qm, q, u) ==
  IF QuestMasterHasQuest(qm, q)
    THEN LET completion == Completion(qm, q, u)
         IN /\ qmUserProfiles' =
                 [qmUserProfiles EXCEPT ![qm][u] =
                    [@ EXCEPT !.xp = @ + quests[q].rewards.xp,
                              !.level = completion.newLevel,
                              !.completedQuests = Append(@, q)]]
            /\ quests' = IF qmBuild = "openai"
                           THEN [quests EXCEPT ![q].status = "completed"]
                           ELSE quests
            \* orchestrator listener
            /\ questHistory' = Append(questHistory, completion)
            /\ activeQuests' = activeQuests \ {q}
            /\ userProfiles' =
                 [userProfiles EXCEPT ![u] =
                    updateUserProfile(@, completion, activeQuests \ {q})]
    ELSE UNCHANGED <<qmUserProfiles, quests, questHistory, activeQuests,
                     userProfiles>>

\* what the two questCompleted listeners publish
questCompletedEvents(qm, q) ==
  IF QuestMasterHasQuest(qm, q)
    THEN <<Ev("broadcast", "questCompleted", q),
           Ev("orchestrator", "questCompleted", q)>>
    ELSE <<>>

\* QuestOrchestrator.completeQuest
completeQuest(q, u) ==
  /\ IF q \notin activeQuests
       THEN /\ response' = [op |-> "orchComplete", q |-> q, u |-> u, out |-> "QuestNotFound"]
            /\ events' = <<>>
            /\ UNCHANGED <<qmUserProfiles, quests, questHistory, activeQuests,
                           userProfiles>>
     ELSE IF ~Includes(quests[q].participants, u)
       THEN /\ response' = [op |-> "orchComplete", q |-> q, u |-> u, out |-> "NotAParticipant"]
            /\ events' = <<>>
            /\ UNCHANGED <<qmUserProfiles, quests, questHistory, activeQuests,
                           userProfiles>>
     ELSE LET questMaster == getQuestMasterForQuest(quests[q])
          IN IF questMaster = "null"
               THEN /\ response' = [op |-> "orchComplete", q |-> q, u |-> u,
                                    out |-> "QuestMasterNotFound"]
                    /\ events' = <<>>
                    /\ UNCHANGED <<qmUserProfiles, quests, questHistory,
                                   activeQuests, userProfiles>>
               ELSE /\ questMasterCompleteQuest(questMaster, q, u)
                    /\ events' = questCompletedEvents(questMaster, q)
                    /\ response' =
                         [op |-> "orchComplete", q |-> q, u |-> u,
                          out |->
                            IF QuestMasterHasQuest(questMaster, q) THEN "completion"
                            ELSE IF qmBuild = "openai" THEN "QuestNotFound"
                            ELSE IF \E i \in 1..Len(questHistory) :
                                      /\ questHistory[i].questId = q
                                      /\ questHistory[i].participantInboxId = u
                              THEN "completion"
                            ELSE "CompletionNotRecorded"]
  /\ UNCHANGED <<monitorVars, broadcastVars, selectVars, dashboardVars>>
  /\ UNCHANGED <<qmBuild, qmActiveQuests, activeMiniApps, timers, launchPc, now>>

\* cleanupExpiredQuests: the sweep over the orchestrator's map
IsDue(quest) == quest.expiresAt < now

\* a sweep that leaves the expired quests in the map
deleteExpiredKeepsEntries(expiredQuests) == activeQuests

\* the map after the sweep's second loop
deleteExpired(expiredQuests) == activeQuests \ SeqToSet(expiredQuests)

cleanupExpiredQuests ==
  LET expiredQuests == SelectSeq([i \in 1..Len(quests) |-> i],
                                 LAMBDA q : q \in activeQuests /\ IsDue(quests[q]))
  IN /\ quests' = [q \in 1..Len(quests) |->
                     IF Includes(expiredQuests, q)
                       THEN [quests[q] EXCEPT !.status = "expired"]
                       ELSE quests[q]]
     /\ activeQuests' = deleteExpired(expiredQuests)
     /\ events' = [i \in 1..Len(expiredQuests) |->
                     Ev("orchestrator", "questExpired", expiredQuests[i])]
     /\ response' = [op |-> "sweep", q |-> 0, u |-> "-", out |-> "-"]
     /\ UNCHANGED <<monitorVars, broadcastVars, selectVars, dashboardVars>>
     /\ UNCHANGED <<qmBuild, qmActiveQuests, qmUserProfiles, userProfiles,
                    questHistory, activeMiniApps, timers, launchPc, now>>

(***************************************************************************)
(* Client-facing handlers of index.ts (HTTP routes and WebSocket actions   *)
(* run the same steps; they differ only in how the answer is shaped)       *)
(***************************************************************************)
\* MiniAppLauncher.addParticipant: its result
addParticipantResult(q) ==
  HasMiniApp(q) /\ activeMiniApps[q].status = "active"

\* an addParticipant without the includes test
addParticipantAlwaysPushes(participants, u) == Append(participants, u)

\* MiniAppLauncher.addParticipant: the list afterwards
addParticipant(participants, u) ==
  IF ~Includes(participants, u) THEN Append(participants, u) ELSE participants

RemoveFirst(s, x) ==
  LET i == CHOOSE k \in 1..Len(s) : s[k] = x /\ \A j \in 1..(k - 1) : s[j] # x
  IN [k \in 1..(Len(s) - 1) |-> IF k < i THEN s[k] ELSE s[k + 1]]

\* POST /api/quests/:questId/join and the joinQuest socket action
joinRequest(q, u) ==
  /\ IF addParticipantResult(q)
       THEN /\ activeMiniApps' =
                 [activeMiniApps EXCEPT ![q].participants = addParticipant(@, u)]
            /\ events' = <<Ev("broadcast", "participantJoined", q)>>
            /\ response' = [op |-> "join", q |-> q, u |-> u, out |-> "success"]
       ELSE /\ UNCHANGED activeMiniApps
            /\ events' = <<>>
            /\ response' = [op |-> "join", q |-> q, u |-> u, out |-> "failed"]
  /\ UNCHANGED <<monitorVars, broadcastVars, selectVars, dashboardVars>>
  /\ UNCHANGED <<qmBuild, quests, qmActiveQuests, qmUserProfiles, activeQuests,
                 userProfiles, questHistory, timers, launchPc, now>>

\* a leave that, like addParticipant, only works on an active mini-app
removeParticipantResultActiveOnly(q, u) ==
  /\ HasMiniApp(q)
  /\ activeMiniApps[q].status = "active"
  /\ Includes(activeMiniApps[q].participants, u)

\* MiniAppLauncher.removeParticipant: its result
removeParticipantResult(q, u) ==
  HasMiniApp(q) /\ Includes(activeMiniApps[q].participants, u)

\* POST /api/quests/:questId/leave and the leaveQuest socket action
leaveRequest(q, u) ==
  /\ IF removeParticipantResult(q, u)
       THEN /\ activeMiniApps' =
                 [activeMiniApps EXCEPT ![q].participants = RemoveFirst(@, u)]
            /\ events' = <<Ev("broadcast", "participantLeft", q)>>
            /\ response' = [op |-> "leave", q |-> q, u |-> u, out |-> "success"]
       ELSE /\ UNCHANGED activeMiniApps
            /\ events' = <<>>
            /\ response' = [op |-> "leave", q |-> q, u |-> u, out |-> "failed"]
  /\ UNCHANGED <<monitorVars, broadcastVars, selectVars, dashboardVars>>
  /\ UNCHANGED <<qmBuild, quests, qmActiveQuests, qmUserProfiles, activeQuests,
                 userProfiles, questHistory, timers, launchPc, now>>

\* POST /api/quests/:questId/complete and the completeQuest socket action;
\* randomQuestMaster is the master drawn with Math.random()
completeRequest(q, u, randomQuestMaster) ==
  /\ IF HasMiniApp(q) /\ activeMiniApps[q].status = "active"
       THEN /\ activeMiniApps' = [activeMiniApps EXCEPT ![q].status = "completed"]
            /\ questMasterCompleteQuest(randomQuestMaster, q, u)
            /\ IF qmBuild = "openai" /\ ~QuestMasterHasQuest(randomQuestMaster, q)
                 THEN /\ events' = <<>>
                      /\ response' = [op |-> "complete", q |-> q, u |-> u, out |-> "error"]
                 ELSE /\ events' = questCompletedEvents(randomQuestMaster, q)
                                     \o <<Ev("broadcast", "questCompleted", q)>>
                      /\ response' = [op |-> "complete", q |-> q, u |-> u, out |-> "success"]
       ELSE /\ UNCHANGED <<activeMiniApps, qmUserProfiles, quests, questHistory,
                           activeQuests, userProfiles>>
            /\ events' = <<>>
            /\ response' = [op |-> "complete", q |-> q, u |-> u, out |-> "failed"]
  /\ UNCHANGED <<monitorVars, broadcastVars, selectVars, dashboardVars>>
  /\ UNCHANGED <<qmBuild, qmActiveQuests, timers, launchPc, now>>

(***************************************************************************)
(* Conversation monitoring and the manual trigger of index.ts              *)
(***************************************************************************)
\* a text message of another member arrives on the stream
messageArrives(c) ==
  /\ received < MaxMessages
  /\ inbox' = Append(inbox, c)
  /\ received' = received + 1
  /\ response' = NoResponse
  /\ events' = <<>>
  /\ UNCHANGED <<qmBuild, quests, qmActiveQuests, qmUserProfiles, activeQuests,
                 userProfiles, questHistory, activeMiniApps, timers, launchPc,
                 now, conversationAnalytics, handler, trigger, triggered,
                 monitoring, handlerErrors, announcements, broadcastVars, selectVars, dashboardVars>>

\* a creation step that creates nothing: analyzeAndCreateQuest caught an
\* error and returned null
noQuestCreated ==
  /\ events' = <<>>
  /\ UNCHANGED <<qmBuild, quests, qmActiveQuests, qmUserProfiles, activeQuests,
                 userProfiles, questHistory, activeMiniApps, timers, launchPc,
                 now>>

\* a loop without the try/catch around handleNewMessage: the error reaches
\* the catch around the whole loop
loopAfterHandlerErrorEscapes == "restarting"

\* the loop after the catch around handleNewMessage has logged an error
loopAfterHandlerError == monitoring

\* the loop takes the next message and runs handleNewMessage up to the call
\* of analyzeAndCreateQuest: the conversation lookup (which finds a group,
\* finds something else or throws), the Math.random() < 0.1 draw and the draw
\* of the Quest Master
handleNewMessage(lookup, shouldCreateQuest, randomQuestMaster) ==
  /\ monitoring = "streaming"
  /\ handler.pc = "idle"
  /\ inbox # <<>>
  /\ inbox' = Tail(inbox)
  /\ handler' = IF lookup = "group" /\ shouldCreateQuest
                  THEN [pc |-> "creating", c |-> Head(inbox),
                        qm |-> randomQuestMaster]
                  ELSE Idle
  /\ monitoring' = IF lookup = "throws" THEN loopAfterHandlerError
                                        ELSE monitoring
  /\ handlerErrors' = IF lookup = "throws" THEN handlerErrors + 1
                                           ELSE handlerErrors
  /\ response' = NoResponse
  /\ noQuestCreated
  /\ UNCHANGED <<conversationAnalytics, received, trigger, triggered,
                 announcements, broadcastVars, selectVars, dashboardVars>>

\* generateQuestAnnouncement and conversation.send after a creation: the
\* announcements once the send has returned (sent) or thrown
announce(created, sent) ==
  IF created /\ sent THEN announcements \cup {Len(quests) + 1}
                     ELSE announcements

\* the awaited analyzeAndCreateQuest of handleNewMessage resolves, and the
\* announcement is sent
handleNewMessageCreate(p, ok, sent) ==
  /\ handler.pc = "creating"
  /\ handler' = Idle
  /\ IF ok THEN createQuest(handler.qm, handler.c, p) ELSE noQuestCreated
  /\ announcements' = announce(ok, sent)
  /\ response' = NoResponse
  /\ UNCHANGED <<conversationAnalytics, inbox, received, trigger, triggered,
                 monitoring, handlerErrors, broadcastVars, selectVars, dashboardVars>>

\* the for-await loop is left while it waits for the next message: the
\* stream throws, and the outer catch schedules a restart; or the stream
\* ends, and startConversationMonitoring returns
streamStops(how) ==
  /\ monitoring = "streaming"
  /\ handler.pc = "idle"
  /\ monitoring' = IF how = "throws" THEN "restarting" ELSE "ended"
  /\ inbox' = <<>>
  /\ response' = NoResponse
  /\ noQuestCreated
  /\ UNCHANGED <<conversationAnalytics, received, handler, trigger, triggered,
                 handlerErrors, announcements, broadcastVars, selectVars, dashboardVars>>

\* the setTimeout callback of the outer catch: startConversationMonitoring
\* runs again and opens a new stream
restartMonitoring ==
  /\ monitoring = "restarting"
  /\ monitoring' = "streaming"
  /\ inbox' = <<>>
  /\ response' = NoResponse
  /\ noQuestCreated
  /\ UNCHANGED <<conversationAnalytics, received, handler, trigger, triggered,
                 handlerErrors, announcements, broadcastVars, selectVars, dashboardVars>>

\* POST /api/quests/trigger up to the call of analyzeAndCreateQuest
triggerRequest(c, isGroup, randomQuestMaster) ==
  /\ trigger.pc = "idle"
  /\ triggered < MaxTriggers
  /\ triggered' = triggered + 1
  /\ IF isGroup
       THEN /\ trigger' = [pc |-> "creating", c |-> c, qm |-> randomQuestMaster]
            /\ response' = NoResponse
       ELSE /\ trigger' = Idle
            /\ response' = [op |-> "trigger", q |-> 0, u |-> "-",
                            out |-> "ConversationNotFound"]
  /\ noQuestCreated
  /\ UNCHANGED <<conversationAnalytics, inbox, received, handler,
                 monitoring, handlerErrors, announcements, broadcastVars, selectVars, dashboardVars>>

\* the awaited analyzeAndCreateQuest of the trigger route resolves, and the
\* announcement is sent
triggerRequestCreate(p, ok, sent) ==
  /\ trigger.pc = "creating"
  /\ trigger' = Idle
  /\ IF ok
       THEN /\ createQuest(trigger.qm, trigger.c, p)
            /\ response' = [op |-> "trigger", q |-> Len(quests) + 1, u |-> "-",
                            out |-> IF sent THEN "success"
                                            ELSE "FailedToTrigger"]
       ELSE /\ noQuestCreated
            /\ response' = [op |-> "trigger", q |-> 0, u |-> "-",
                            out |-> "NoQuestCreated"]
  /\ announcements' = announce(ok, sent)
  /\ UNCHANGED <<conversationAnalytics, inbox, received, handler, triggered,
                 monitoring, handlerErrors, broadcastVars, selectVars, dashboardVars>>

(***************************************************************************)
(* Quest gating of the first QuestOrchestrator (shouldCreateQuest,         *)
(* createQuestForConversation and the analytics they keep)                 *)
(***************************************************************************)
GateMinutes == 30

GateMessages == 10

GateUsers == 2

\* getConversationAnalytics: the entry after the refresh from the
\* conversation's recent messages and members (found: the lookup gave a
\* conversation); engagementLevel is the quotient activeUsers / members
getConversationAnalytics(analytics, found, activeUsers, members) ==
  IF ~found THEN analytics
  ELSE [analytics EXCEPT
          !.activeUsers = activeUsers,
          !.engagementLevel =
             IF members > 0 THEN [num |-> activeUsers, den |-> members]
             ELSE [num |-> 0, den |-> 1],
          !.timeSinceLastQuest =
             IF analytics.lastQuestCreated # NoDate
               THEN now - analytics.lastQuestCreated
               ELSE @]

\* an engagement test that also passes at exactly one half
HighEngagementOrHalf(e) == 2 * e.num >= e.den

\* criteria.engagementLevel > 0.5
HighEngagement(e) == 2 * e.num > e.den

\* shouldCreateQuest: hasActiveQuest
hasActiveQuest(c) ==
  \E q \in activeQuests :
    quests[q].conversationId = c /\ quests[q].status = "active"

\* shouldCreateQuest: the criteria over the refreshed analytics
MeetsCriteria(analytics) ==
  /\ analytics.messagesSinceLastQuest >= GateMessages
  /\ analytics.activeUsers >= GateUsers
  /\ HighEngagement(analytics.engagementLevel)
  /\ analytics.timeSinceLastQuest >= GateMinutes

\* QuestOrchestrator.shouldCreateQuest(conversation, message)
shouldCreateQuest(c, found, activeUsers, members) ==
  LET analytics == getConversationAnalytics(conversationAnalytics[c], found,
                                            activeUsers, members)
  IN /\ conversationAnalytics' = [conversationAnalytics EXCEPT ![c] = analytics]
     /\ response' =
          [op |-> "shouldCreateQuest", q |-> 0, u |-> c,
           out |-> IF ~hasActiveQuest(c) /\ MeetsCriteria(analytics)
                     THEN "true" ELSE "false"]
     /\ events' = <<>>
     /\ UNCHANGED <<qmBuild, quests, qmActiveQuests, qmUserProfiles,
                    activeQuests, userProfiles, questHistory, activeMiniApps,
                    timers, launchPc, now, inbox, received, handler, trigger,
                    triggered, monitoring, handlerErrors, announcements, broadcastVars, selectVars, dashboardVars>>

\* how the proposal step of analyzeAndCreateQuest can end: a usable
\* proposal, a thrown error, no content, or content that is not JSON
ProposalOutcomes == {"ok", "throws", "empty", "unparsable"}

\* a Quest Master that builds the quest from its defaults when the proposal
\* has no usable content
proposalFailedOnlyOnThrow(outcome) == outcome = "throws"

\* analyzeAndCreateQuest returns null: the step threw, or the content was
\* missing ("No response from OpenAI") or no JSON ("Invalid JSON response")
proposalFailed(outcome) == outcome # "ok"

\* QuestOrchestrator.createQuestForConversation: the quest is created and
\* announced, then the conversation's analytics are updated; a failed
\* proposal or a failed send of the announcement ends it with null
createQuestForConversation(qm, c, p, outcome, sent) ==
  /\ Len(quests) < MaxQuests
  /\ qmBuild = "mock" => outcome \in {"ok", "throws"}
  /\ IF proposalFailed(outcome) THEN noQuestCreated ELSE createQuest(qm, c, p)
  /\ announcements' = announce(~proposalFailed(outcome), sent)
  /\ conversationAnalytics' =
       IF ~proposalFailed(outcome) /\ sent
         THEN [conversationAnalytics EXCEPT ![c].lastQuestCreated = now,
                                           ![c].messagesSinceLastQuest = 0]
         ELSE conversationAnalytics
  /\ response' = [op |-> "createQuestForConversation",
                  q |-> IF ~proposalFailed(outcome) /\ sent
                          THEN Len(quests) + 1 ELSE 0,
                  u |-> c,
                  out |-> IF ~proposalFailed(outcome) /\ sent THEN "quest"
                                                              ELSE "null"]
  /\ UNCHANGED <<inbox, received, handler, trigger, triggered, monitoring,
                 handlerErrors, broadcastVars, selectVars, dashboardVars>>

(***************************************************************************)
(* QuestOrchestrator.selectQuestMaster. A text is a sequence of characters *)
(***************************************************************************)
\* String.prototype.toLowerCase, on the capitals the contents use
toLowerCaseChar(ch) ==
  CASE ch = "W" -> "w" [] ch = "I" -> "i" [] ch = "N" -> "n" [] OTHER -> ch

toLowerCase(text) == [i \in 1..Len(text) |-> toLowerCaseChar(text[i])]

\* String.prototype.includes: kw occurs in text as a substring
includes(text, kw) ==
  \E i \in 0..(Len(text) - Len(kw)) :
    \A j \in 1..Len(kw) : text[i + j] = kw[j]

\* Array.prototype.join(" ")
RECURSIVE join(_)
join(contents) ==
  IF contents = <<>> THEN <<>>
  ELSE IF Len(contents) = 1 THEN contents[1]
  ELSE contents[1] \o <<" ">> \o join(Tail(contents))

\* messages.map(m => m.content).filter(Boolean).join(" ").toLowerCase()
messageTexts(contents) ==
  toLowerCase(join(SelectSeq(contents, LAMBDA c : c # <<>>)))

\* the keyword tests of selectQuestMaster, in the order of its if statements
KeywordSets ==
  <<[persona |-> "The Mentor",
      keywords |-> <<<<"l", "e", "a", "r", "n">>,
                     <<"h", "e", "l", "p">>,
                     <<"t", "e", "a", "c", "h">>>>],
     [persona |-> "The Competitor",
      keywords |-> <<<<"c", "o", "m", "p", "e", "t", "e">>,
                     <<"c", "h", "a", "l", "l", "e", "n", "g", "e">>,
                     <<"w", "i", "n">>>>],
     [persona |-> "The Creator",
      keywords |-> <<<<"c", "r", "e", "a", "t", "e">>,
                     <<"a", "r", "t">>,
                     <<"d", "e", "s", "i", "g", "n">>>>],
     [persona |-> "The Connector",
      keywords |-> <<<<"c", "o", "n", "n", "e", "c", "t">>,
                     <<"n", "e", "t", "w", "o", "r", "k">>,
                     <<"c", "o", "m", "m", "u", "n", "i", "t", "y">>>>],
     [persona |-> "The Explorer",
      keywords |-> <<<<"p", "r", "o", "t", "o", "c", "o", "l">>,
                     <<"w", "e", "b", "3">>,
                     <<"b", "l", "o", "c", "k", "c", "h", "a", "i", "n">>>>]>>

matches(text, i) ==
  \E k \in 1..Len(KeywordSets[i].keywords) :
    includes(text, KeywordSets[i].keywords[k])

\* a selection that tests the Competitor's keywords before the Mentor's
keywordPersonaCompetitorFirst(text) ==
  IF matches(text, 2) THEN KeywordSets[2].persona
  ELSE IF matches(text, 1) THEN KeywordSets[1].persona
  ELSE IF matches(text, 3) THEN KeywordSets[3].persona
  ELSE IF matches(text, 4) THEN KeywordSets[4].persona
  ELSE IF matches(text, 5) THEN KeywordSets[5].persona
  ELSE "null"

\* the chain of if statements: the persona of the first test that matches,
\* "null" when none does
keywordPersona(text) ==
  IF matches(text, 1) THEN KeywordSets[1].persona
  ELSE IF matches(text, 2) THEN KeywordSets[2].persona
  ELSE IF matches(text, 3) THEN KeywordSets[3].persona
  ELSE IF matches(text, 4) THEN KeywordSets[4].persona
  ELSE IF matches(text, 5) THEN KeywordSets[5].persona
  ELSE "null"

\* the contents a recent message can have; the empty content is dropped by
\* filter(Boolean)
Contents ==
  {<<>>,
   <<"l", "e", "a", "r", "n">>,
   <<"W", "I", "N">>,
   <<"s", "t", "a", "r", "t">>,
   <<"N", "e", "t", "w", "o", "r", "k">>,
   <<"w", "e", "b", "3">>,
   <<"h", "e", "l", "l", "o">>,
   <<"d", "e", "s", "i", "g", "n">>}

\* the conversation's recent messages change
messagesChange(contents) ==
  /\ recentMessages' = contents
  /\ selected' = "none"
  /\ UNCHANGED <<questVars, monitorVars, broadcastVars, dashboardVars>>

\* selectQuestMaster(messages, members); randomIndex is the Math.random() draw
selectQuestMaster(randomIndex) ==
  /\ LET byKeyword == keywordPersona(messageTexts(recentMessages))
     IN selected' = IF byKeyword # "null" THEN byKeyword
                    ELSE QuestMasterNames[randomIndex]
  /\ UNCHANGED recentMessages
  /\ UNCHANGED <<questVars, monitorVars, broadcastVars, dashboardVars>>

(***************************************************************************)
(* The WebSocket server of index.ts and broadcastToClients                 *)
(***************************************************************************)
\* wss.on("connection"): the socket enters wss.clients, open
connection(s) ==
  /\ ~Includes(wssClients, s)
  /\ wssClients' = Append(wssClients, s)
  /\ readyState' = [readyState EXCEPT ![s] = "OPEN"]
  /\ UNCHANGED <<outbox, publish>>
  /\ UNCHANGED <<questVars, monitorVars, selectVars, dashboardVars>>

\* a subscriber starts to disconnect: its socket is still in wss.clients
closing(s) ==
  /\ Includes(wssClients, s)
  /\ readyState[s] = "OPEN"
  /\ readyState' = [readyState EXCEPT ![s] = "CLOSING"]
  /\ UNCHANGED <<wssClients, outbox, publish>>
  /\ UNCHANGED <<questVars, monitorVars, selectVars, dashboardVars>>

\* ws.on("close"): the socket has left wss.clients
close(s) ==
  /\ Includes(wssClients, s)
  /\ wssClients' = SelectSeq(wssClients, LAMBDA x : x # s)
  /\ readyState' = [readyState EXCEPT ![s] = "CLOSED"]
  /\ UNCHANGED <<outbox, publish>>
  /\ UNCHANGED <<questVars, monitorVars, selectVars, dashboardVars>>

\* a fan-out that ends at the first client that is not open or whose send
\* fails
recipientsUntilFailure(lost) ==
  LET bad == {i \in 1..Len(wssClients) :
                readyState[wssClients[i]] # "OPEN" \/ wssClients[i] \in lost}
      stop == IF bad = {} THEN Len(wssClients) + 1
              ELSE CHOOSE i \in bad : \A j \in bad : i <= j
  IN {wssClients[i] : i \in 1..(stop - 1)}

\* the clients the forEach of broadcastToClients delivers to: every open
\* client of wss.clients, but for those whose send does not get through
recipients(lost) ==
  {s \in SeqToSet(wssClients) : readyState[s] = "OPEN" /\ s \notin lost}

\* broadcastToClients(message); lost are the sockets whose send fails
broadcastToClients(lost) ==
  /\ publish.message < MaxPublishes
  /\ LET message == publish.message + 1
     IN /\ outbox' = [s \in Subscribers |->
                        IF s \in recipients(lost)
                          THEN Append(outbox[s], message)
                          ELSE outbox[s]]
        /\ publish' = [message |-> message, lost |-> lost, out |-> "returned"]
  /\ UNCHANGED <<wssClients, readyState>>
  /\ UNCHANGED <<questVars, monitorVars, selectVars, dashboardVars>>

(***************************************************************************)
(* The dashboard's WebSocket connection with its reconnection logic        *)
(***************************************************************************)
maxReconnectAttempts == 5

ConnectionLost == "Connection lost. Please refresh the page."

\* a reconnect test that lets one attempt too many through
mayReconnectOnceMore == reconnectAttempts <= maxReconnectAttempts

\* onclose: reconnectAttempts < maxReconnectAttempts
mayReconnect == reconnectAttempts < maxReconnectAttempts

\* websocket.onopen
onopen ==
  /\ websocket = "CONNECTING"
  /\ websocket' = "OPEN"
  /\ connectionStatus' = "connected"
  /\ reconnectAttempts' = 0
  /\ UNCHANGED <<reconnectTimer, error, userStats>>
  /\ UNCHANGED <<questVars, monitorVars, broadcastVars, selectVars>>

\* websocket.onmessage for the message types that change the connection's
\* state: userStats, questCompleted (which calls fetchUserStats; fetched: the
\* API call succeeded) and error
onmessage(type, fetched) ==
  /\ websocket = "OPEN"
  /\ userStats' = CASE type = "userStats" -> "stats"
                    [] type = "questCompleted" ->
                         IF fetched THEN "stats" ELSE "default"
                    [] OTHER -> userStats
  /\ error' = IF type = "error" THEN "server" ELSE error
  /\ UNCHANGED <<websocket, reconnectAttempts, reconnectTimer, connectionStatus>>
  /\ UNCHANGED <<questVars, monitorVars, broadcastVars, selectVars>>

\* websocket.onerror; the browser fires close after it
onerror ==
  /\ websocket \in {"CONNECTING", "OPEN"}
  /\ websocket' = "CLOSING"
  /\ connectionStatus' = "disconnected"
  /\ UNCHANGED <<reconnectAttempts, reconnectTimer, error, userStats>>
  /\ UNCHANGED <<questVars, monitorVars, broadcastVars, selectVars>>

\* websocket.onclose
onclose ==
  /\ websocket \in {"CONNECTING", "OPEN", "CLOSING"}
  /\ websocket' = "CLOSED"
  /\ connectionStatus' = "disconnected"
  /\ IF mayReconnect
       THEN /\ reconnectAttempts' = reconnectAttempts + 1
            /\ reconnectTimer' = TRUE
            /\ UNCHANGED error
       ELSE /\ error' = ConnectionLost
            /\ UNCHANGED <<reconnectAttempts, reconnectTimer>>
  /\ UNCHANGED userStats
  /\ UNCHANGED <<questVars, monitorVars, broadcastVars, selectVars>>

\* connectWebSocket, run by the timer onclose set
connectWebSocket ==
  /\ reconnectTimer
  /\ reconnectTimer' = FALSE
  /\ connectionStatus' = "connecting"
  /\ websocket' = "CONNECTING"
  /\ UNCHANGED <<reconnectAttempts, error, userStats>>
  /\ UNCHANGED <<questVars, monitorVars, broadcastVars, selectVars>>

\* the error banner's close button: setError(null)
dismissError ==
  /\ error # "null"
  /\ error' = "null"
  /\ UNCHANGED <<websocket, reconnectAttempts, reconnectTimer, connectionStatus,
                 userStats>>
  /\ UNCHANGED <<questVars, monitorVars, broadcastVars, selectVars>>

Next ==
  \/ \E q \in QuestIds, u \in Users : joinQuest(q, u)
  \/ \E q \in QuestIds, u \in Users : completeQuest(q, u)
  \/ cleanupExpiredQuests
  \/ \E q \in QuestIds, u \in Users : joinRequest(q, u)
  \/ \E q \in QuestIds, u \in Users : leaveRequest(q, u)
  \/ \E q \in QuestIds, u \in Users, qm \in QuestMasters : completeRequest(q, u, qm)
  \/ \E qm \in QuestMasters, c \in Conversations :
       \E p \in Proposals(qm) : analyzeAndCreateQuest(qm, c, p)
  \/ \E q \in QuestIds, b \in BOOLEAN : launchQuestMiniApp(q, b)
  \/ \E q \in QuestIds, b \in BOOLEAN : miniAppMessageSent(q, b)
  \/ \E t \in timers : autoExpire(t)
  \/ Tick

Spec == Init /\ [][Next]_vars

\* quest creation as index.ts drives it: the monitoring loop and the manual
\* trigger, with the clock and the orchestrator's sweep
MonitorQuestIds == 1..(MaxMessages + MaxTriggers)

InitMonitor == InitWith(MonitorQuestIds)

NextMonitor ==
  \/ \E c \in Conversations : messageArrives(c)
  \/ \E l \in Lookups, r \in BOOLEAN, qm \in QuestMasters :
       handleNewMessage(l, r, qm)
  \/ /\ handler.pc = "creating"
     /\ \E ok, sent \in BOOLEAN : \E p \in Proposals(handler.qm) :
          handleNewMessageCreate(p, ok, sent)
  \/ \E c \in Conversations, g \in BOOLEAN, qm \in QuestMasters :
       triggerRequest(c, g, qm)
  \/ /\ trigger.pc = "creating"
     /\ \E ok, sent \in BOOLEAN : \E p \in Proposals(trigger.qm) :
          triggerRequestCreate(p, ok, sent)
  \/ cleanupExpiredQuests
  \/ Tick

SpecMonitor == InitMonitor /\ [][NextMonitor]_vars

\* the steps of the for-await loop: it takes the next message of the stream,
\* and the creation it awaits settles
loopTakesMessage ==
  \E l \in Lookups, r \in BOOLEAN, qm \in QuestMasters :
    handleNewMessage(l, r, qm)

loopCreationSettles ==
  /\ handler.pc = "creating"
  /\ \E ok, sent \in BOOLEAN : \E p \in Proposals(handler.qm) :
       handleNewMessageCreate(p, ok, sent)

\* monitoring with a loop that keeps running: a message the stream holds is
\* taken, and an awaited call settles
SpecMonitorLive ==
  /\ SpecMonitor
  /\ WF_vars(loopTakesMessage)
  /\ WF_vars(loopCreationSettles)

\* the monitoring loop over a stream that can throw or end
NextStream ==
  \/ \E c \in Conversations : messageArrives(c)
  \/ \E l \in Lookups, r \in BOOLEAN, qm \in QuestMasters :
       handleNewMessage(l, r, qm)
  \/ /\ handler.pc = "creating"
     /\ \E ok, sent \in BOOLEAN : \E p \in Proposals(handler.qm) :
          handleNewMessageCreate(p, ok, sent)
  \/ \E how \in {"throws", "ends"} : streamStops(how)
  \/ restartMonitoring

SpecStream == InitMonitor /\ [][NextStream]_vars

\* the timer of the outer catch fires, and the loop keeps running
SpecStreamLive ==
  /\ SpecStream
  /\ WF_vars(restartMonitoring)
  /\ WF_vars(loopTakesMessage)
  /\ WF_vars(loopCreationSettles)

\* the mini-app launcher with its callers: the questCreated listener, the
\* client-facing handlers, the expiry timer and closeMiniApp
NextLauncher ==
  \/ \E qm \in QuestMasters, c \in Conversations :
       \E p \in Proposals(qm) : analyzeAndCreateQuest(qm, c, p)
  \/ \E q \in QuestIds, b \in BOOLEAN : launchQuestMiniApp(q, b)
  \/ \E q \in QuestIds, b \in BOOLEAN : miniAppMessageSent(q, b)
  \/ \E t \in timers : autoExpire(t)
  \/ \E q \in QuestIds, u \in Users : joinRequest(q, u)
  \/ \E q \in QuestIds, u \in Users : leaveRequest(q, u)
  \/ \E q \in QuestIds, u \in Users, qm \in QuestMasters : completeRequest(q, u, qm)
  \/ \E q \in QuestIds : closeMiniApp(q)
  \/ Tick

SpecLauncher == Init /\ [][NextLauncher]_vars

\* selectQuestMaster over the recent messages a conversation can show
NextSelect ==
  \/ \E n \in 0..MaxRecent : \E contents \in [1..n -> Contents] :
       messagesChange(contents)
  \/ \E i \in 1..Len(QuestMasterNames) : selectQuestMaster(i)

SpecSelect == Init /\ [][NextSelect]_vars

\* the WebSocket server: dashboards connect and disconnect while publishers
\* broadcast
NextBroadcast ==
  \/ \E s \in Subscribers : connection(s)
  \/ \E s \in Subscribers : closing(s)
  \/ \E s \in Subscribers : close(s)
  \/ \E lost \in SUBSET Subscribers : broadcastToClients(lost)

SpecBroadcast == Init /\ [][NextBroadcast]_vars

\* the dashboard's connection: sockets open, fail and close, messages arrive
\* while one is open, and the reconnect timer fires
NextDashboard ==
  \/ onopen
  \/ \E type \in {"userStats", "questCompleted", "error"}, fetched \in BOOLEAN :
       onmessage(type, fetched)
  \/ onerror
  \/ onclose
  \/ connectWebSocket
  \/ dismissError

SpecDashboard == Init /\ [][NextDashboard]_vars

\* a connection attempt settles (it opens or closes)
attemptSettles == onopen \/ onclose

\* the reconnect timer fires, and every connection attempt settles
SpecDashboardLive ==
  /\ SpecDashboard
  /\ WF_vars(connectWebSocket)
  /\ WF_vars(attemptSettles)

\* the gate of the first orchestrator, over the analytics snapshots a
\* conversation can present to it
SnapshotMessages == {0, 9, 10, 11}

SnapshotMinutes == {0, 29, 30, 31}

SnapshotActiveUsers == 1..3

SnapshotMembers == {0, 4, 5, 6}

InitGating ==
  /\ InitCore(QuestIds)
  /\ \E m \in SnapshotMessages, t \in SnapshotMinutes :
       conversationAnalytics =
         [c \in Conversations |->
            [DefaultAnalytics EXCEPT !.messagesSinceLastQuest = m,
                                    !.timeSinceLastQuest = t]]

NextGating ==
  \/ \E c \in Conversations, found \in BOOLEAN,
        a \in SnapshotActiveUsers, m \in SnapshotMembers :
       shouldCreateQuest(c, found, a, m)
  \/ \E qm \in QuestMasters, c \in Conversations :
       \E p \in Proposals(qm), o \in ProposalOutcomes, sent \in BOOLEAN :
         createQuestForConversation(qm, c, p, o, sent)
  \/ \E qm \in QuestMasters, c \in Conversations :
       \E p \in Proposals(qm) : analyzeAndCreateQuest(qm, c, p)
  \/ cleanupExpiredQuests
  \/ Tick

SpecGating == InitGating /\ [][NextGating]_vars

\* the first orchestrator as it runs: handleNewMessage asks shouldCreateQuest
\* for every message, the trigger route calls createQuestForConversation,
\* and the analytics start as getConversationAnalytics inserts them
NextGatingRun ==
  \/ \E c \in Conversations, found \in BOOLEAN,
        a \in SnapshotActiveUsers, m \in SnapshotMembers :
       shouldCreateQuest(c, found, a, m)
  \/ \E qm \in QuestMasters, c \in Conversations :
       \E p \in Proposals(qm), o \in ProposalOutcomes, sent \in BOOLEAN :
         createQuestForConversation(qm, c, p, o, sent)
  \/ cleanupExpiredQuests
  \/ Tick

SpecGatingRun == Init /\ [][NextGatingRun]_vars

\* a message observed while 3 of m members were active in the last hour
\* (3 distinct senders, engagement 3/m)
messageObserved(m) ==
  \E c \in Conversations : shouldCreateQuest(c, TRUE, 3, m)

\* the conversation keeps receiving messages of 3 active senders, with 4 and
\* with 5 members, and the clock keeps advancing up to MaxTime
SpecGatingLive ==
  /\ SpecGatingRun
  /\ WF_vars(messageObserved(4))
  /\ WF_vars(messageObserved(5))
  /\ WF_vars(Tick)

\* completions of quests that the monitoring loop created with different
\* Quest Masters
NextProfiles ==
  \/ \E c \in Conversations : messageArrives(c)
  \/ \E l \in Lookups, r \in BOOLEAN, qm \in QuestMasters :
       handleNewMessage(l, r, qm)
  \/ /\ handler.pc = "creating"
     /\ \E ok, sent \in BOOLEAN : \E p \in Proposals(handler.qm) :
          handleNewMessageCreate(p, ok, sent)
  \/ \E q \in MonitorQuestIds, u \in Users : joinQuest(q, u)
  \/ \E q \in MonitorQuestIds, u \in Users : completeQuest(q, u)

SpecProfiles == InitMonitor /\ [][NextProfiles]_vars


(***************************************************************************)
(* Properties                                                              *)
(***************************************************************************)
\* number of QuestCompletion records the history holds for quest q
NumCompletions(q) ==
  Cardinality({i \in 1..Len(questHistory) : questHistory[i].questId = q})

Created == 1..Len(quests)

\* C1: for every quest held by the orchestrator, after any sequence of
\* joinQuest calls, the participant list is never longer than
\* participantLimits.max.
C1_ParticipantsWithinMax ==
  \A q \in Created :
    Len(quests[q].participants) <= quests[q].participantLimits.max

\* a join has been refused with "Quest is full" on a quest filled to its max
C1_Witness ==
  /\ response.op = "orchJoin"
  /\ response.out = "QuestFull"
  /\ response.q \in activeQuests
  /\ Len(quests[response.q].participants) = quests[response.q].participantLimits.max
  /\ Len(quests[response.q].participants) > 0

\* C2: a quest's status only moves active->completed or active->expired; a
\* quest that is completed or expired never changes status again.
C2_StatusIsFinal ==
  [][\A q \in Created :
       quests[q].status \in {"completed", "expired"}
         => quests'[q].status = quests[q].status]_vars

\* C3: expiry and completion of one quest are mutually exclusive, first wins:
\* once the sweep has expired a quest no complete awards anything on it, and
\* once a completion is recorded no sweep reports the quest as expired.
C3_ExpiryAndCompletionExclusive ==
  [][\A q \in Created :
       /\ quests[q].status = "expired" => NumCompletions(q)' = NumCompletions(q)
       /\ NumCompletions(q) > 0
            => ~Includes(events', Ev("orchestrator", "questExpired", q))]_vars

\* C4: on an active quest, whichever persona created it, complete by a user of
\* its participant list through the orchestrator succeeds: it returns the
\* completion, appends one record, updates the profile and emits
\* questCompleted.
C4_ParticipantCompletes ==
  [][\A q \in QuestIds, u \in Users :
       (/\ q \in activeQuests
        /\ quests[q].status = "active"
        /\ Includes(quests[q].participants, u)
        /\ completeQuest(q, u))
       => /\ response'.out = "completion"
          /\ Len(questHistory') = Len(questHistory) + 1
          /\ userProfiles'[u] # userProfiles[u]
          /\ Includes(events', Ev("orchestrator", "questCompleted", q))]_vars

\* C5: completion is exactly-once per quest: the history never holds more
\* than one QuestCompletion record for a quest id.
C5_AtMostOneCompletion ==
  \A q \in Created : NumCompletions(q) <= 1

\* C6: complete on a quest whose status is not active leaves every profile
\* and the completion history unchanged.
C6_NoRewardUnlessActive ==
  [][\A q \in Created :
       quests[q].status # "active"
         => /\ NumCompletions(q)' = NumCompletions(q)
            /\ \A u \in Users :
                 /\ Includes(userProfiles'[u].completedQuests, q)
                      => userProfiles'[u] = userProfiles[u]
                 /\ \A qm \in QuestMasters :
                      QuestMasterHasQuest(qm, q)
                        => qmUserProfiles'[qm][u] = qmUserProfiles[qm][u]]_vars

\* C7: once a quest has been observed as completed, every later join on it,
\* through the orchestrator or the client-facing join, fails and adds no
\* participant.
C7_NoJoinAfterCompleted ==
  [][\A q \in Created :
       (quests[q].status = "completed" \/ NumCompletions(q) > 0)
         => /\ quests'[q].participants = quests[q].participants
            /\ HasMiniApp(q)
                 => activeMiniApps'[q].participants = activeMiniApps[q].participants
            /\ \A u \in Users :
                 /\ joinQuest(q, u) => response'.out # "true"
                 /\ joinRequest(q, u) => response'.out = "failed"]_vars

\* C8: after the sweep has expired a quest, a join on it fails with
\* QuestNotActive.
C8_JoinAfterExpiryNotActive ==
  [][\A q \in Created, u \in Users :
       (quests[q].status = "expired" /\ joinQuest(q, u))
         => response'.out = "QuestNotActive"]_vars

\* C9: join is idempotent: a second joinQuest with the same quest and user
\* right after a successful one returns false and leaves the participant
\* list unchanged.
C9_JoinIdempotent ==
  [][\A q \in QuestIds, u \in Users :
       (/\ response = [op |-> "orchJoin", q |-> q, u |-> u, out |-> "true"]
        /\ joinQuest(q, u))
       => /\ response'.out = "false"
          /\ quests' = quests]_vars

\* the second of two joins by the same user has just returned false
C9_Witness ==
  /\ response.op = "orchJoin"
  /\ response.out = "false"
  /\ response.q \in activeQuests
  /\ Includes(quests[response.q].participants, response.u)

\* C10: on the client-facing join, a join by a non-participant on an active
\* quest succeeds exactly when the participant count is below max (a join
\* past capacity fails with QuestFull).
C10_ClientJoinRespectsCapacity ==
  [][\A q \in Created, u \in Users :
       (/\ HasMiniApp(q)
        /\ activeMiniApps[q].status = "active"
        /\ ~Includes(activeMiniApps[q].participants, u)
        /\ joinRequest(q, u))
       => (response'.out = "success"
             <=> Len(activeMiniApps[q].participants)
                   < quests[q].participantLimits.max)]_vars

\* C11: the mini-app record's participant list and the quest's participant
\* list contain the same users in every reachable state, whatever joins and
\* leaves ran through the orchestrator and the client-facing handlers.
C11_MiniAppMirrorsQuest ==
  \A q \in Created :
    HasMiniApp(q)
      => SeqToSet(getQuestParticipants(q)) = SeqToSet(quests[q].participants)

\* C12: complete by a user who is in no participant list of the quest never
\* succeeds, through the orchestrator or a client complete request: it
\* changes no status, awards no xp and records no completion.
C12_NonParticipantCannotComplete ==
  [][\A q \in Created, u \in Users :
       (/\ ~Includes(quests[q].participants, u)
        /\ ~Includes(getQuestParticipants(q), u)
        /\ \/ completeQuest(q, u)
           \/ \E qm \in QuestMasters : completeRequest(q, u, qm))
       => /\ response'.out \notin {"completion", "success"}
          /\ quests'[q].status = quests[q].status
          /\ userProfiles'[u].xp = userProfiles[u].xp
          /\ questHistory' = questHistory]_vars

\* QuestOrchestrator.getActiveQuests(conversationId), as quest ids
getActiveQuests(c) ==
  {q \in Created : /\ q \in activeQuests
                   /\ quests[q].conversationId = c
                   /\ quests[q].status = "active"}

\* C13: at most one quest with status active exists per conversation at any
\* time, for every interleaving of inbound message handling and manual
\* trigger requests on the same conversation.
C13_OneActiveQuestPerConversation ==
  \A c \in Conversations : Cardinality(getActiveQuests(c)) <= 1

\* C14: shouldCreateQuest returns true exactly when the conversation has no
\* active quest, messagesSinceLastQuest >= 10, activeUsers >= 2, the
\* engagement ratio is above 0.5 and timeSinceLastQuest >= 30 minutes.
C14_GateThresholds ==
  [][\A c \in Conversations :
       (response'.op = "shouldCreateQuest" /\ response'.u = c)
       => LET snapshot == conversationAnalytics'[c]
          IN (response'.out = "true")
               <=> /\ getActiveQuests(c) = {}
                   /\ snapshot.messagesSinceLastQuest >= 10
                   /\ snapshot.activeUsers >= 2
                   /\ 2 * snapshot.engagementLevel.num
                        > snapshot.engagementLevel.den
                   /\ snapshot.timeSinceLastQuest >= 30]_vars

\* the gate has just opened on a snapshot of 10 or more messages, ratio 3/5
\* and half an hour or more since the last quest
C14_Witness ==
  /\ response.op = "shouldCreateQuest"
  /\ response.out = "true"
  /\ conversationAnalytics[response.u].messagesSinceLastQuest >= 10
  /\ conversationAnalytics[response.u].engagementLevel = [num |-> 3, den |-> 5]
  /\ conversationAnalytics[response.u].timeSinceLastQuest >= 30

\* C15: after every successful completion by a participant the user's profile, as
\* getUserStats returns it, has gained exactly quest.rewards.xp, has the
\* level that belongs to the new xp and lists the quest in completedQuests.
C15_CompletionAwardsXpOnce ==
  [][\A q \in Created, u \in Users :
       (/\ response'.q = q
        /\ response'.u = u
        /\ response'.op \in {"orchComplete", "complete"}
        /\ response'.out \in {"completion", "success"}
        /\ \/ Includes(quests[q].participants, u)
           \/ Includes(getQuestParticipants(q), u))
       => /\ userProfiles'[u].xp = userProfiles[u].xp + quests[q].rewards.xp
          /\ userProfiles'[u].level = (userProfiles'[u].xp \div 100) + 1
          /\ Includes(userProfiles'[u].completedQuests, q)]_vars

\* C16: in every reachable state every user profile, in the orchestrator and
\* in each Quest Master, has level = floor(xp / 100) + 1.
C16_LevelFollowsXp ==
  \A u \in Users :
    /\ userProfiles[u].level = (userProfiles[u].xp \div 100) + 1
    /\ \A qm \in QuestMasters :
         qmUserProfiles[qm][u].level = (qmUserProfiles[qm][u].xp \div 100) + 1

\* a user has been rewarded past the first level boundary, in the
\* orchestrator and in a Quest Master
C16_Witness ==
  \E u \in Users, qm \in QuestMasters :
    /\ userProfiles[u].xp >= 100
    /\ userProfiles[u].level >= 2
    /\ qmUserProfiles[qm][u].xp >= 100
    /\ qmUserProfiles[qm][u].level >= 2

\* the bonus tables of the socialScore rule
TypeBonus(type) ==
  CASE type = "community_building" -> 10
    [] type = "social_challenge"   -> 8
    [] type = "cross_protocol"     -> 9
    [] type = "creative_contest"   -> 7
    [] type = "knowledge_quest"    -> 6

DifficultyBonus(difficulty) ==
  CASE difficulty = "expert" -> 15
    [] difficulty = "hard"   -> 10
    [] difficulty = "medium" -> 5
    [] difficulty = "easy"   -> 2

\* C17: on each completion the user's socialScore increases by 5 plus the
\* type bonus of the completed quest plus its difficulty bonus.
C17_SocialScoreIncrease ==
  [][Len(questHistory') = Len(questHistory) + 1
       => LET completion == questHistory'[Len(questHistory')]
              quest == quests[completion.questId]
              u == completion.participantInboxId
          IN userProfiles'[u].socialScore =
               userProfiles[u].socialScore + 5 + TypeBonus(quest.type)
                 + DifficultyBonus(quest.difficulty)]_vars

\* a list without repeated elements
NoDuplicates(s) == \A i, j \in 1..Len(s) : s[i] = s[j] => i = j

\* C18: a profile's completedQuests never contains the same quest id twice,
\* in the orchestrator's profiles and in each Quest Master's profiles.
C18_CompletedQuestsIsSet ==
  \A u \in Users :
    /\ NoDuplicates(userProfiles[u].completedQuests)
    /\ \A qm \in QuestMasters :
         NoDuplicates(qmUserProfiles[qm][u].completedQuests)


\* the questExpired events a step emits for quest q
ExpiredEventsFor(q) ==
  {i \in 1..Len(events') : events'[i] = Ev("orchestrator", "questExpired", q)}

\* C19: a sweep transitions each quest of the map whose expiry lies before
\* the clock and emits questExpired for it exactly once; a sweep that runs
\* directly after a sweep, with the same clock value, changes no quest,
\* removes nothing from the map and emits nothing.
C19_SweepSingleFire ==
  [][cleanupExpiredQuests =>
       /\ \A q \in Created :
            (q \in activeQuests /\ quests[q].expiresAt < now)
              => /\ quests'[q].status = "expired"
                 /\ q \notin activeQuests'
                 /\ Cardinality(ExpiredEventsFor(q)) = 1
       /\ \A q \in activeQuests' : ~(quests'[q].expiresAt < now')
       /\ response.op = "sweep"
            => /\ quests' = quests
               /\ activeQuests' = activeQuests
               /\ events' = <<>>]_vars

\* a sweep has just run and transitioned nothing, after a sweep expired a quest
C19_Witness ==
  /\ response.op = "sweep"
  /\ events = <<>>
  /\ \E q \in Created :
       /\ quests[q].status = "expired"
       /\ q \notin activeQuests
       /\ quests[q].expiresAt < now


\* C20: a sweep transitions every active quest of the map whose expiresAt is
\* at or before the sweep's clock, a quest expiring exactly at that instant
\* included, and leaves every quest that expires later as it was.
C20_SweepBoundary ==
  [][cleanupExpiredQuests =>
       \A q \in Created :
         (q \in activeQuests /\ quests[q].status = "active")
           => IF quests[q].expiresAt <= now
                THEN quests'[q].status = "expired" /\ q \notin activeQuests'
                ELSE quests'[q] = quests[q] /\ q \in activeQuests']_vars

\* a quest of the orchestrator's map that is active and filled to its max
ActiveAndFull(q) ==
  /\ q \in activeQuests
  /\ quests[q].status = "active"
  /\ Len(quests[q].participants) >= quests[q].participantLimits.max

\* C21 (as stated): joinQuest on an active quest filled to
\* participantLimits.max fails with QuestFull and leaves the participant
\* list unchanged, whoever the calling user is.
C21_FullQuestRefusesEveryUser ==
  [][\A q \in QuestIds, u \in Users :
       (ActiveAndFull(q) /\ joinQuest(q, u))
         => /\ response'.out = "QuestFull"
            /\ quests'[q].participants = quests[q].participants]_vars

\* C21 (amended): on an active quest filled to participantLimits.max,
\* joinQuest by a user who is not yet a participant fails with QuestFull,
\* joinQuest by a user already listed returns false, and in both cases the
\* participant list is unchanged.
C21_FullQuestRefusesJoin ==
  [][\A q \in QuestIds, u \in Users :
       (ActiveAndFull(q) /\ joinQuest(q, u))
         => /\ response'.out =
                 IF Includes(quests[q].participants, u) THEN "false"
                                                        ELSE "QuestFull"
            /\ quests'[q].participants = quests[q].participants]_vars

\* a user outside the list has just been refused on an active, full quest
C21_Witness ==
  /\ response.op = "orchJoin"
  /\ response.out = "QuestFull"
  /\ ActiveAndFull(response.q)
  /\ ~Includes(quests[response.q].participants, response.u)
  /\ quests[response.q].participantLimits.max >= 1

\* the participantLeft broadcasts a step emits for quest q
LeftEventsFor(q) ==
  {i \in 1..Len(events') : events'[i] = Ev("broadcast", "participantLeft", q)}

\* C22: a leave request answers success exactly when the user is in the
\* mini-app's participant list, whatever the status of the mini-app and of
\* the quest; on success the user is gone from the list and the others stay,
\* otherwise the list is unchanged; participantLeft is broadcast once exactly
\* on success.
C22_LeaveSemantics ==
  [][\A q \in QuestIds, u \in Users :
       leaveRequest(q, u)
         => LET was == Includes(getQuestParticipants(q), u)
                after == IF q \in DOMAIN activeMiniApps'
                           THEN SeqToSet(activeMiniApps'[q].participants)
                           ELSE {}
            IN /\ (response'.out = "success") <=> was
               /\ was => after = SeqToSet(getQuestParticipants(q)) \ {u}
               /\ ~was => activeMiniApps' = activeMiniApps
               /\ Cardinality(LeftEventsFor(q)) = (IF was THEN 1 ELSE 0)]_vars

\* a participant has just left a mini-app that is no longer active
C22_Witness ==
  /\ response.op = "leave"
  /\ response.out = "success"
  /\ HasMiniApp(response.q)
  /\ activeMiniApps[response.q].status # "active"
  /\ ~Includes(activeMiniApps[response.q].participants, response.u)

\* the step is a broadcastToClients call
IsPublish == publish'.message = publish.message + 1

C24_ParticipantLimitsValid ==
  \A q \in Created :
    /\ quests[q].participantLimits.max >= quests[q].participantLimits.min
    /\ quests[q].participantLimits.min >= 1

\* C25: when the proposal step fails (it throws, returns no content or returns
\* content that is not JSON), createQuestForConversation ends with null and
\* nothing else happens: no quest enters a Quest Master's or the
\* orchestrator's map, no questCreated is emitted, no announcement is sent
\* and the conversation's analytics are left as they were.
C25_FailedProposalSkipsCycle ==
  [][\A qm \in QuestMasters, c \in Conversations, sent \in BOOLEAN :
       \A p \in Proposals(qm), o \in ProposalOutcomes \ {"ok"} :
         createQuestForConversation(qm, c, p, o, sent)
           => /\ response'.out = "null"
              /\ quests' = quests
              /\ qmActiveQuests' = qmActiveQuests
              /\ activeQuests' = activeQuests
              /\ events' = <<>>
              /\ announcements' = announcements
              /\ conversationAnalytics' = conversationAnalytics]_vars

\* a creation cycle has just ended with null on a conversation whose message
\* counter stands, with no quest and no announcement
C25_Witness ==
  /\ response.op = "createQuestForConversation"
  /\ response.out = "null"
  /\ quests = <<>>
  /\ announcements = {}
  /\ events = <<>>
  /\ conversationAnalytics[response.u].messagesSinceLastQuest >= GateMessages

\* C26: whenever a quest is created for a conversation, by the gated
\* createQuestForConversation or by the manual trigger, the conversation's
\* analytics are reset in the same step: messagesSinceLastQuest is 0 and
\* lastQuestCreated is the time of creation.
C26_CreationResetsAnalytics ==
  [][Len(quests') = Len(quests) + 1
       => LET c == quests'[Len(quests')].conversationId
          IN /\ conversationAnalytics'[c].messagesSinceLastQuest = 0
             /\ conversationAnalytics'[c].lastQuestCreated = now]_vars

\* the pending expiry timers of quest q's mini-app
TimersOf(q) == {t \in timers : t.questId = q}

\* C27: a mini-app has at most one expiry timer pending; when it fires it is
\* gone for good, and it changes the record only by turning active into
\* expired; a record that is expired stays expired, whatever runs afterwards.
C27_TimerExpiresOnce ==
  [][/\ \A q \in QuestIds : Cardinality(TimersOf(q)') <= 1
     /\ \A t \in timers :
          autoExpire(t)
            => /\ t \notin timers'
               /\ \/ activeMiniApps' = activeMiniApps
                  \/ /\ activeMiniApps[t.questId].status = "active"
                     /\ activeMiniApps' =
                          [activeMiniApps EXCEPT ![t.questId].status = "expired"]
     /\ \A q \in QuestIds :
          (HasMiniApp(q) /\ activeMiniApps[q].status = "expired")
            => (q \in DOMAIN activeMiniApps'
                  => activeMiniApps'[q].status = "expired")]_vars

\* the timer of a mini-app has fired and the record is expired, with a
\* participant in it
C27_Witness ==
  \E q \in Created :
    /\ HasMiniApp(q)
    /\ activeMiniApps[q].status = "expired"
    /\ launchPc[q] = "done"
    /\ TimersOf(q) = {}
    /\ activeMiniApps[q].participants # <<>>

\* C28: closeMiniApp on a quest with a mini-app leaves the record expired
\* with the participants it had, and a second closeMiniApp on the same quest
\* right after the first returns the same and changes nothing.
C28_CloseIdempotent ==
  [][\A q \in QuestIds :
       closeMiniApp(q)
         => /\ HasMiniApp(q)
                 => /\ q \in DOMAIN activeMiniApps'
                    /\ activeMiniApps'[q].status = "expired"
                    /\ activeMiniApps'[q].participants
                         = activeMiniApps[q].participants
            /\ response = [op |-> "close", q |-> q, u |-> "-", out |-> "true"]
                 => /\ activeMiniApps' = activeMiniApps
                    /\ response' = response]_vars

\* closeMiniApp has just returned true on a record with a participant whose
\* expiry timer is still pending, so that only the close can have expired it
C28_Witness ==
  /\ response.op = "close"
  /\ response.out = "true"
  /\ HasMiniApp(response.q)
  /\ activeMiniApps[response.q].status = "expired"
  /\ activeMiniApps[response.q].participants # <<>>
  /\ TimersOf(response.q) # {}

\* C29: an error thrown while one message is handled is caught for that
\* message: the loop keeps streaming, and the messages the stream holds
\* afterwards are all taken by the loop.
C29_LoopSurvivesHandlerError ==
  /\ [](monitoring = "streaming")
  /\ (handlerErrors > 0 /\ inbox # <<>>) ~> (inbox = <<>>)

\* after the loop caught an error on one message, a later message has been
\* taken and has reached the creation of a quest
C29_Witness ==
  /\ handlerErrors >= 1
  /\ monitoring = "streaming"
  /\ received = MaxMessages
  /\ inbox = <<>>
  /\ handler.pc = "creating"

\* the step is a call of selectQuestMaster
IsSelect == selected' # "none" /\ recentMessages' = recentMessages

\* the keyword sets with a keyword that occurs in the lower-cased text
MatchingSets == {i \in 1..Len(KeywordSets) :
                   matches(messageTexts(recentMessages), i)}

\* C30: when the recent text contains a keyword, selectQuestMaster returns
\* the persona of the first keyword set, in the order Mentor, Competitor,
\* Creator, Connector, Explorer, that has a keyword in the text, whatever
\* the random draw, and so the same persona as the call before it on the
\* same text; when no set matches it returns one of the five personas.
C30_SelectionDeterministic ==
  [][IsSelect =>
       IF MatchingSets # {}
         THEN /\ \E i \in MatchingSets :
                   /\ \A j \in MatchingSets : i <= j
                   /\ selected' = QuestMasterNames[i]
              /\ selected # "none" => selected' = selected
         ELSE selected' \in QuestMasters]_vars

\* a call on a text that matches two keyword sets, the Creator's inside
\* another word and the Competitor's by a capital WIN, has returned the
\* Competitor
C30_Witness ==
  /\ recentMessages = << <<"s", "t", "a", "r", "t">>, <<"W", "I", "N">> >>
  /\ selected = "The Competitor"

\* C31: no step lowers a profile's xp or level, in the orchestrator's
\* profiles and in every Quest Master's: each completion leaves them at
\* least as high as before.
C31_XpAndLevelMonotone ==
  [][\A u \in Users :
       /\ userProfiles'[u].xp >= userProfiles[u].xp
       /\ userProfiles'[u].level >= userProfiles[u].level
       /\ \A qm \in QuestMasters :
            /\ qmUserProfiles'[qm][u].xp >= qmUserProfiles[qm][u].xp
            /\ qmUserProfiles'[qm][u].level >= qmUserProfiles[qm][u].level]_vars

\* C32: whenever a mini-app record is completed, the quest is completed too,
\* a QuestCompletion record exists for it and the user of that record has the
\* quest in the completedQuests of the orchestrator's profile.
C32_CompletionAtomic ==
  \A q \in Created :
    (HasMiniApp(q) /\ activeMiniApps[q].status = "completed")
      => /\ quests[q].status = "completed"
         /\ \E i \in 1..Len(questHistory) :
              /\ questHistory[i].questId = q
              /\ Includes(userProfiles[questHistory[i].participantInboxId]
                            .completedQuests, q)

\* C33: a step publishes participantJoined for a quest only if it added a
\* user to the mini-app's participant list; a repeated join of a user who is
\* already listed publishes nothing.
C33_JoinedEventOnlyWhenAdded ==
  [][\A q \in Created :
       Includes(events', Ev("broadcast", "participantJoined", q))
         => /\ HasMiniApp(q)
            /\ Len(activeMiniApps'[q].participants)
                 = Len(activeMiniApps[q].participants) + 1]_vars

\* the number of entries of the event sequence s equal to e
CountOf(s, e) == Cardinality({i \in 1..Len(s) : s[i] = e})

\* C34: a completion request that answers success publishes exactly one
\* questCompleted event to the connected subscribers, never two or more.
C34_OneCompletedEventPerCompletion ==
  [][\A q \in Created :
       (response'.op = "complete" /\ response'.out = "success" /\ response'.q = q)
         => CountOf(events', Ev("broadcast", "questCompleted", q)) = 1]_vars

\* C35: the newLevel of a QuestCompletion record equals the level getUserStats
\* reports for that user right after the completion, also where the user
\* completed quests created by different Quest Masters.
C35_NewLevelMatchesProfile ==
  [][Len(questHistory') = Len(questHistory) + 1
       => LET completion == questHistory'[Len(questHistory')]
          IN completion.newLevel
               = userProfiles'[completion.participantInboxId].level]_vars

\* C36: once the current time is past a quest's expiresAt no join of that
\* quest succeeds, neither QuestOrchestrator.joinQuest nor the join request,
\* whether or not the expiry sweep or the mini-app timer has run.
C36_NoJoinAfterExpiry ==
  [][\A q \in Created :
       now > quests[q].expiresAt
         => ~ /\ response'.q = q
              /\ \/ response'.op = "orchJoin" /\ response'.out = "true"
                 \/ response'.op = "join" /\ response'.out = "success"]_vars

ReturnedTrue(c) ==
  /\ response.op = "shouldCreateQuest"
  /\ response.u = c
  /\ response.out = "true"

\* C38: gating is live: a conversation without an active quest that keeps
\* receiving messages of at least 2 distinct senders with engagement above
\* 0.5 eventually sees shouldCreateQuest return true (unless a quest became
\* active first), also when it never had a quest.
C38_GatingLive ==
  \A c \in Conversations :
    ~hasActiveQuest(c) ~> (hasActiveQuest(c) \/ ReturnedTrue(c))

\* shouldCreateQuest never returns true and the counter never leaves 0
C38_GateNeverOpens ==
  \A c \in Conversations :
    /\ ~ReturnedTrue(c)
    /\ conversationAnalytics[c].messagesSinceLastQuest = 0

\* C39: after the message stream has failed or ended, conversation monitoring
\* is eventually running again.
C39_MonitoringRestarts ==
  (monitoring # "streaming") ~> (monitoring = "streaming")

\* the restart the outer catch schedules does happen: a stream that threw is
\* followed by a running loop
C39_FailedStreamRestarts ==
  (monitoring = "restarting") ~> (monitoring = "streaming")

\* a step in which onclose schedules a reconnect
SchedulesReconnect == ~reconnectTimer /\ reconnectTimer'

\* C40: the reconnect loop terminates. A reconnect is scheduled only by a
\* close and raises the counter by one, the counter never exceeds
\* maxReconnectAttempts and falls (to 0) only when a socket opens; a close at
\* the fifth consecutive failure schedules nothing and sets the
\* connection-lost error; and a closed connection is followed by an open
\* socket or by a state with no reconnect pending.
C40_ReconnectTerminates ==
  /\ [](reconnectAttempts <= maxReconnectAttempts)
  /\ [][/\ SchedulesReconnect
             => /\ websocket' = "CLOSED" /\ websocket # "CLOSED"
                /\ reconnectAttempts' = reconnectAttempts + 1
        /\ reconnectAttempts' < reconnectAttempts
             => websocket' = "OPEN" /\ reconnectAttempts' = 0
        /\ (websocket # "CLOSED" /\ websocket' = "CLOSED"
              /\ reconnectAttempts = maxReconnectAttempts)
             => ~reconnectTimer' /\ error' = ConnectionLost]_vars
  /\ (websocket = "CLOSED")
       ~> (websocket = "OPEN" \/ (websocket = "CLOSED" /\ ~reconnectTimer))

\* five consecutive reconnect attempts have failed: the socket is closed, no
\* reconnect is pending and the connection-lost error is shown
C40_Witness ==
  /\ websocket = "CLOSED"
  /\ ~reconnectTimer
  /\ reconnectAttempts = maxReconnectAttempts
  /\ error = ConnectionLost

=============================================================================
